---- MODULE Spec2Model ----
(***************************************************************************)
(* Model of the dynamodb-relational-store library: URN parsing and         *)
(* validation, DynamoDB key generation and the record factories.           *)
(*                                                                         *)
(* Strings are sequences of one-character strings, so that trimming,       *)
(* concatenation and the regular expressions act on characters.  A         *)
(* JavaScript value is a record [t, s, n, nan]: t is the typeof tag, s the *)
(* characters of a string, n a number counted in halves (n = 3 is 1.5),    *)
(* nan the NaN flag.  A call's outcome is [ok, err, val]: ok = FALSE is a  *)
(* thrown Error whose message starts with err.                             *)
(***************************************************************************)
EXTENDS Integers, Sequences, FiniteSets, TLC

VARIABLES op, args, ret, clock, heap

vars == <<op, args, ret, clock, heap>>

(***************************************************************************)
(* JavaScript values and outcomes                                          *)
(***************************************************************************)
JsStr(s) == [t |-> "string", s |-> s, n |-> 0, nan |-> FALSE]

JsNum(halves) == [t |-> "number", s |-> <<>>, n |-> halves, nan |-> FALSE]

JsNaN == [t |-> "number", s |-> <<>>, n |-> 0, nan |-> TRUE]

JsUndefined == [t |-> "undefined", s |-> <<>>, n |-> 0, nan |-> FALSE]

JsNull == [t |-> "object", s |-> <<>>, n |-> 0, nan |-> FALSE]

\* !x : the empty string, 0, NaN, undefined and null are falsy
Falsy(x) ==
  CASE x.t = "string" -> Len(x.s) = 0
    [] x.t = "number" -> x.nan \/ x.n = 0
    [] OTHER -> TRUE

Return(v) == [ok |-> TRUE, err |-> "", val |-> v]

Throw(msg) == [ok |-> FALSE, err |-> msg, val |-> <<>>]

(***************************************************************************)
(* String.prototype.trim                                                   *)
(***************************************************************************)
Whitespace == {" ", "\t"}

RECURSIVE TrimStart(_)
TrimStart(s) ==
  IF Len(s) > 0 /\ Head(s) \in Whitespace THEN TrimStart(Tail(s)) ELSE s

RECURSIVE TrimEnd(_)
TrimEnd(s) ==
  IF Len(s) > 0 /\ s[Len(s)] \in Whitespace
  THEN TrimEnd(SubSeq(s, 1, Len(s) - 1))
  ELSE s

Trim(s) == TrimEnd(TrimStart(s))

(***************************************************************************)
(* String literals of the source                                           *)
(***************************************************************************)
UrnLit ==
  <<"u","r","n",":">>

PpDomain ==
  <<"p","p">>

ResourcePrefix ==
  <<"R","e","s","o","u","r","c","e","#">>

ParentPrefix ==
  <<"P","a","r","e","n","t","#">>

ChildPrefix ==
  <<"C","h","i","l","d","#">>

CollectionPrefix ==
  <<"C","o","l","l","e","c","t","i","o","n","#">>

MemberPrefix ==
  <<"M","e","m","b","e","r","#">>

UniqueKeyValuePrefix ==
  <<"U","n","i","q","u","e","K","e","y","V","a","l","u","e","#">>

(***************************************************************************)
(* urn-validator.ts                                                        *)
(***************************************************************************)
NoColon(s) == \A i \in 1..Len(s) : s[i] # ":"

ColonsFrom(s, first) == {i \in first..Len(s) : s[i] = ":"}

\* the splits of s whose colons are taken among the positions colons
SplitsAmong(s, colons) ==
  {p \in colons \X colons :
      /\ p[1] < p[2]
      /\ p[2] + 1 \in colons
      /\ NoColon(SubSeq(s, 5, p[1] - 1))
      /\ NoColon(SubSeq(s, p[1] + 1, p[2] - 1))
      /\ NoColon(SubSeq(s, p[2] + 2, Len(s)))}

\* /^urn:([^:]*):([^:]*)::([^:]*)$/ : the set of ways to split s into
\* "urn:" A ":" B "::" C with colon-free A, B, C (at most one exists); p[1]
\* is the colon after A, p[2] the first colon after B
UrnPatternSplits(s) ==
  IF Len(s) < 4 \/ SubSeq(s, 1, 4) # UrnLit THEN {}
  ELSE SplitsAmong(s, ColonsFrom(s, 5))

\* the groups captured by the split p
GroupsAt(s, p) ==
  [matched |-> TRUE,
   domain |-> SubSeq(s, 5, p[1] - 1),
   resourceType |-> SubSeq(s, p[1] + 1, p[2] - 1),
   resourceId |-> SubSeq(s, p[2] + 2, Len(s))]

MatchAmong(s, splits) ==
  IF splits = {}
  THEN [matched |-> FALSE, domain |-> <<>>, resourceType |-> <<>>,
        resourceId |-> <<>>]
  ELSE GroupsAt(s, CHOOSE q \in splits : TRUE)

\* urn.match(URN_PATTERN): the captured groups, or matched = FALSE
UrnPatternMatch(s) == MatchAmong(s, UrnPatternSplits(s))

HexDigits ==
  {"0","1","2","3","4","5","6","7","8","9",
   "a","b","c","d","e","f","A","B","C","D","E","F"}

\* /^[0-9a-f]{8}-[0-9a-f]{4}-7[0-9a-f]{3}-[89ab][0-9a-f]{3}-[0-9a-f]{12}$/i
UuidV7PatternTest(s) ==
  /\ Len(s) = 36
  /\ \A i \in 1..36 :
       CASE i \in {9, 14, 19, 24} -> s[i] = "-"
         [] i = 15 -> s[i] = "7"
         [] i = 20 -> s[i] \in {"8", "9", "a", "b", "A", "B"}
         [] OTHER -> s[i] \in HexDigits

\* parseUrn that looks at the resourceType before the domain
parseUrnMatch_ResourceTypeFirst(m) ==
  IF ~m.matched THEN Throw("Invalid URN format")
  ELSE IF Len(m.resourceType) = 0 \/ Len(Trim(m.resourceType)) = 0
    THEN Throw("Invalid URN: resourceType cannot be empty")
  ELSE IF Len(m.domain) = 0 \/ Len(Trim(m.domain)) = 0
    THEN Throw("Invalid URN: domain cannot be empty")
  ELSE IF Len(m.resourceId) = 0 \/ Len(Trim(m.resourceId)) = 0
    THEN Throw("Invalid URN: resourceId cannot be empty")
  ELSE Return([domain |-> Trim(m.domain),
               resourceType |-> Trim(m.resourceType),
               resourceId |-> Trim(m.resourceId)])

\* parseUrn from the match on: m is urn.match(URN_PATTERN)
parseUrnMatch(m) ==
  IF ~m.matched THEN Throw("Invalid URN format")
  ELSE IF Len(m.domain) = 0 \/ Len(Trim(m.domain)) = 0
    THEN Throw("Invalid URN: domain cannot be empty")
  ELSE IF Len(m.resourceType) = 0 \/ Len(Trim(m.resourceType)) = 0
    THEN Throw("Invalid URN: resourceType cannot be empty")
  ELSE IF Len(m.resourceId) = 0 \/ Len(Trim(m.resourceId)) = 0
    THEN Throw("Invalid URN: resourceId cannot be empty")
  ELSE Return([domain |-> Trim(m.domain),
               resourceType |-> Trim(m.resourceType),
               resourceId |-> Trim(m.resourceId)])

parseUrn(urn) ==
  IF urn.t # "string" \/ Len(Trim(urn.s)) = 0
  THEN Throw("URN must be a non-empty string")
  ELSE parseUrnMatch(UrnPatternMatch(urn.s))

\* createUrn that joins the resourceId with one colon
createUrn_SingleColon(domain, resourceType, resourceId) ==
  IF domain.t # "string" \/ Len(Trim(domain.s)) = 0
  THEN Throw("Domain must be a non-empty string")
  ELSE IF resourceType.t # "string" \/ Len(Trim(resourceType.s)) = 0
  THEN Throw("ResourceType must be a non-empty string")
  ELSE IF resourceId.t # "string" \/ Len(Trim(resourceId.s)) = 0
  THEN Throw("ResourceId must be a non-empty string")
  ELSE IF ~UuidV7PatternTest(Trim(resourceId.s))
  THEN Throw("Invalid resourceId format")
  ELSE Return(UrnLit \o Trim(domain.s) \o <<":">> \o Trim(resourceType.s)
                \o <<":">> \o Trim(resourceId.s))

createUrn(domain, resourceType, resourceId) ==
  IF domain.t # "string" \/ Len(Trim(domain.s)) = 0
  THEN Throw("Domain must be a non-empty string")
  ELSE IF resourceType.t # "string" \/ Len(Trim(resourceType.s)) = 0
  THEN Throw("ResourceType must be a non-empty string")
  ELSE IF resourceId.t # "string" \/ Len(Trim(resourceId.s)) = 0
  THEN Throw("ResourceId must be a non-empty string")
  ELSE IF ~UuidV7PatternTest(Trim(resourceId.s))
  THEN Throw("Invalid resourceId format")
  ELSE Return(UrnLit \o Trim(domain.s) \o <<":">> \o Trim(resourceType.s)
                \o <<":", ":">> \o Trim(resourceId.s))

\* the try block of validateUrn: parsed is the outcome of parseUrn(urn), and
\* the catch turns a throw of parseUrn into FALSE
validateUrnParsed(parsed) ==
  IF ~parsed.ok THEN Return(FALSE)
  ELSE IF Len(parsed.val.domain) = 0 \/ Len(Trim(parsed.val.domain)) = 0
    THEN Return(FALSE)
  ELSE IF Len(parsed.val.resourceType) = 0
          \/ Len(Trim(parsed.val.resourceType)) = 0
    THEN Return(FALSE)
  ELSE IF ~UuidV7PatternTest(parsed.val.resourceId)
    THEN Return(FALSE)
  ELSE Return(TRUE)

\* validateUrn without the UUID v7 test of the resourceId
validateUrn_NoUuidCheck(urn) ==
  IF urn.t # "string" \/ Len(Trim(urn.s)) = 0
  THEN Return(FALSE)
  ELSE Return(parseUrn(urn).ok)

validateUrn(urn) ==
  IF urn.t # "string" \/ Len(Trim(urn.s)) = 0
  THEN Return(FALSE)
  ELSE validateUrnParsed(parseUrn(urn))

\* validateUrn(x) used as a condition
IsValidUrn(urn) == validateUrn(urn) = Return(TRUE)

(***************************************************************************)
(* key-generation.ts                                                       *)
(***************************************************************************)
\* generateResourceKey that builds the keys from the trimmed urn
generateResourceKey_Trimmed(urn) ==
  IF ~IsValidUrn(urn) THEN Throw("Invalid URN format")
  ELSE Return([PK |-> ResourcePrefix \o Trim(urn.s),
               SK |-> ResourcePrefix \o Trim(urn.s)])

\* generateResourceKey whose SK is the bare urn
generateResourceKey_BareSortKey(urn) ==
  IF ~IsValidUrn(urn) THEN Throw("Invalid URN format")
  ELSE Return([PK |-> ResourcePrefix \o urn.s, SK |-> urn.s])

generateResourceKey(urn) ==
  IF ~IsValidUrn(urn) THEN Throw("Invalid URN format")
  ELSE Return([PK |-> ResourcePrefix \o urn.s, SK |-> ResourcePrefix \o urn.s])

\* generateParentChildKey that builds both keys with the Resource# prefix
generateParentChildKey_ResourcePrefix(parentUrn, childUrn) ==
  IF ~IsValidUrn(parentUrn) THEN Throw("Invalid parent URN format")
  ELSE IF ~IsValidUrn(childUrn) THEN Throw("Invalid child URN format")
  ELSE Return([PK |-> ResourcePrefix \o parentUrn.s,
               SK |-> ResourcePrefix \o childUrn.s])

generateParentChildKey(parentUrn, childUrn) ==
  IF ~IsValidUrn(parentUrn) THEN Throw("Invalid parent URN format")
  ELSE IF ~IsValidUrn(childUrn) THEN Throw("Invalid child URN format")
  ELSE Return([PK |-> ParentPrefix \o parentUrn.s,
               SK |-> ChildPrefix \o childUrn.s])

\* generateCollectionMemberKey that validates the member URN first
generateCollectionMemberKey_MemberFirst(collectionUrn, memberUrn) ==
  IF ~IsValidUrn(memberUrn) THEN Throw("Invalid member URN format")
  ELSE IF ~IsValidUrn(collectionUrn)
  THEN Throw("Invalid collection URN format")
  ELSE Return([PK |-> CollectionPrefix \o collectionUrn.s,
               SK |-> MemberPrefix \o memberUrn.s])

generateCollectionMemberKey(collectionUrn, memberUrn) ==
  IF ~IsValidUrn(collectionUrn) THEN Throw("Invalid collection URN format")
  ELSE IF ~IsValidUrn(memberUrn) THEN Throw("Invalid member URN format")
  ELSE Return([PK |-> CollectionPrefix \o collectionUrn.s,
               SK |-> MemberPrefix \o memberUrn.s])

\* generateUniqueKeyValueKey that does not trim the value
generateUniqueKeyValueKey_UntrimmedValue(resourceType, key, value) ==
  IF Falsy(resourceType) \/ Len(Trim(resourceType.s)) = 0
  THEN Throw("ResourceType cannot be empty")
  ELSE IF Falsy(key) \/ Len(Trim(key.s)) = 0
  THEN Throw("Key cannot be empty")
  ELSE IF Falsy(value) \/ Len(Trim(value.s)) = 0
  THEN Throw("Value cannot be empty")
  ELSE Return(
    [PK |-> UniqueKeyValuePrefix \o Trim(resourceType.s) \o <<"#">>
              \o Trim(key.s) \o <<"#">> \o value.s,
     SK |-> UniqueKeyValuePrefix \o Trim(resourceType.s) \o <<"#">>
              \o Trim(key.s)])

generateUniqueKeyValueKey(resourceType, key, value) ==
  IF Falsy(resourceType) \/ Len(Trim(resourceType.s)) = 0
  THEN Throw("ResourceType cannot be empty")
  ELSE IF Falsy(key) \/ Len(Trim(key.s)) = 0
  THEN Throw("Key cannot be empty")
  ELSE IF Falsy(value) \/ Len(Trim(value.s)) = 0
  THEN Throw("Value cannot be empty")
  ELSE Return(
    [PK |-> UniqueKeyValuePrefix \o Trim(resourceType.s) \o <<"#">>
              \o Trim(key.s) \o <<"#">> \o Trim(value.s),
     SK |-> UniqueKeyValuePrefix \o Trim(resourceType.s) \o <<"#">>
              \o Trim(key.s)])

\* generateInvertedIndexKey that does not swap
generateInvertedIndexKey_NotSwapped(record) ==
  Return([GSI1PK |-> record["PK"], GSI1SK |-> record["SK"]])

\* record is a function from field names to JavaScript values
generateInvertedIndexKey(record) ==
  Return([GSI1PK |-> record["SK"], GSI1SK |-> record["PK"]])

\* generateAccountIndexKey that returns the two URNs in the wrong fields
generateAccountIndexKey_Swapped(accountUrn, urn) ==
  IF ~IsValidUrn(accountUrn) THEN Throw("Invalid account URN format")
  ELSE IF ~IsValidUrn(urn) THEN Throw("Invalid URN format")
  ELSE Return([GSI2PK |-> urn.s, GSI2SK |-> accountUrn.s])

generateAccountIndexKey(accountUrn, urn) ==
  IF ~IsValidUrn(accountUrn) THEN Throw("Invalid account URN format")
  ELSE IF ~IsValidUrn(urn) THEN Throw("Invalid URN format")
  ELSE Return([GSI2PK |-> accountUrn.s, GSI2SK |-> urn.s])

(***************************************************************************)
(* uuid-v7.ts and timestamps.ts.  The clock counts milliseconds since the  *)
(* epoch; the model keeps it inside the first day of 1970.                 *)
(***************************************************************************)
HexChar(d) ==
  <<"0","1","2","3","4","5","6","7","8","9","a","b","c","d","e","f">>[d + 1]

RECURSIVE ToHex(_, _)
ToHex(n, width) ==
  IF width = 0 THEN <<>>
  ELSE ToHex(n \div 16, width - 1) \o <<HexChar(n % 16)>>

\* an id that leads with random bits and ends with the timestamp
generateUuidV7_RandomFirst(now, rand) ==
  LET ts == ToHex(now, 12) IN
    ToHex(rand.c, 8) \o <<"-">> \o ToHex(rand.a, 4) \o <<"-", "7">>
      \o ToHex(rand.b, 3) \o <<"-">> \o <<HexChar(8 + rand.v)>>
      \o SubSeq(ts, 1, 3) \o <<"-">> \o <<"0", "0", "0">> \o SubSeq(ts, 4, 12)

\* 48 bits of Unix milliseconds, version 7, 12 random bits, variant 10,
\* 62 random bits; rand = [a, v, b, c] holds the random bits
generateUuidV7(now, rand) ==
  LET ts == ToHex(now, 12) IN
    SubSeq(ts, 1, 8) \o <<"-">> \o SubSeq(ts, 9, 12) \o <<"-", "7">>
      \o ToHex(rand.a, 3) \o <<"-">> \o <<HexChar(8 + rand.v)>>
      \o ToHex(rand.b, 3) \o <<"-">> \o ToHex(rand.c, 12)

DecChar(d) ==
  <<"0","1","2","3","4","5","6","7","8","9">>[d + 1]

RECURSIVE ToDec(_, _)
ToDec(n, width) ==
  IF width = 0 THEN <<>>
  ELSE ToDec(n \div 10, width - 1) \o <<DecChar(n % 10)>>

EpochDay ==
  <<"1","9","7","0","-","0","1","-","0","1","T">>

\* new Date().toISOString() at a clock of now milliseconds
getCurrentTimestamp(now) ==
  EpochDay \o ToDec(now \div 3600000, 2) \o <<":">>
    \o ToDec((now \div 60000) % 60, 2) \o <<":">>
    \o ToDec((now \div 1000) % 60, 2) \o <<".">>
    \o ToDec(now % 1000, 3) \o <<"Z">>

(***************************************************************************)
(* timestamps.ts: ISO_8601_PATTERN and isValidIso8601                      *)
(***************************************************************************)
Digits == {"0", "1", "2", "3", "4", "5", "6", "7", "8", "9"}

IsDigits(s) == \A i \in 1..Len(s) : s[i] \in Digits

DigitVal(c) == CHOOSE d \in 0..9 : DecChar(d) = c

RECURSIVE NumOf(_)
NumOf(s) ==
  IF Len(s) = 0 THEN 0
  ELSE 10 * NumOf(SubSeq(s, 1, Len(s) - 1)) + DigitVal(s[Len(s)])

\* the zone group made mandatory
Iso8601ZoneTest_Mandatory(z) ==
  \/ z = <<"Z">>
  \/ /\ Len(z) = 6
     /\ z[1] \in {"+", "-"}
     /\ IsDigits(SubSeq(z, 2, 3))
     /\ z[4] = ":"
     /\ IsDigits(SubSeq(z, 5, 6))

\* (Z|[+-]\d{2}:\d{2})?$
Iso8601ZoneTest(z) ==
  \/ z = <<>>
  \/ z = <<"Z">>
  \/ /\ Len(z) = 6
     /\ z[1] \in {"+", "-"}
     /\ IsDigits(SubSeq(z, 2, 3))
     /\ z[4] = ":"
     /\ IsDigits(SubSeq(z, 5, 6))

\* (\.\d{3})?(Z|[+-]\d{2}:\d{2})?$
Iso8601FractionTest(r) ==
  \/ Iso8601ZoneTest(r)
  \/ /\ Len(r) >= 4
     /\ r[1] = "."
     /\ IsDigits(SubSeq(r, 2, 4))
     /\ Iso8601ZoneTest(SubSeq(r, 5, Len(r)))

\* ISO_8601_PATTERN.test(s)
Iso8601PatternTest(s) ==
  /\ Len(s) >= 19
  /\ IsDigits(SubSeq(s, 1, 4)) /\ s[5] = "-"
  /\ IsDigits(SubSeq(s, 6, 7)) /\ s[8] = "-"
  /\ IsDigits(SubSeq(s, 9, 10)) /\ s[11] = "T"
  /\ IsDigits(SubSeq(s, 12, 13)) /\ s[14] = ":"
  /\ IsDigits(SubSeq(s, 15, 16)) /\ s[17] = ":"
  /\ IsDigits(SubSeq(s, 18, 19))
  /\ Iso8601FractionTest(SubSeq(s, 20, Len(s)))

DaysInMonth(year, month) ==
  IF month = 2
  THEN IF year % 4 = 0 /\ (year % 100 # 0 \/ year % 400 = 0) THEN 29 ELSE 28
  ELSE IF month \in {4, 6, 9, 11} THEN 30 ELSE 31

\* the zone of a string of the pattern's shape: what follows the seconds and
\* the fraction
ZoneOf(s) ==
  IF Len(s) >= 20 /\ s[20] = "." THEN SubSeq(s, 24, Len(s))
  ELSE SubSeq(s, 20, Len(s))

MillisOf(s) ==
  IF Len(s) >= 20 /\ s[20] = "." THEN NumOf(SubSeq(s, 21, 23)) ELSE 0

\* the JavaScript engines a build can run on differ in new Date(string): a
\* day of the month from 29 to 31 past the end of the month rolls over into
\* the next month or gives an invalid Date, and a string with surrounding
\* whitespace is parsed or gives an invalid Date
Engines == [dayOverflow : BOOLEAN, padded : BOOLEAN]

\* !isNaN(new Date(...).getTime()) from the fields of the string
DateFieldsValid(year, month, day, hour, minute, second, millis, zone, engine) ==
  /\ month \in 1..12
  /\ day >= 1
  /\ day <= (IF engine.dayOverflow THEN 31 ELSE DaysInMonth(year, month))
  /\ \/ hour <= 23 /\ minute <= 59 /\ second <= 59
     \/ hour = 24 /\ minute = 0 /\ second = 0 /\ millis = 0
  /\ Len(zone) = 6 =>
       /\ NumOf(SubSeq(zone, 2, 3)) <= 23
       /\ NumOf(SubSeq(zone, 5, 6)) <= 59

\* !isNaN(new Date(s).getTime()) for a string s whose trimmed form has the
\* shape of ISO_8601_PATTERN
DateIsValid(s, engine) ==
  /\ s # Trim(s) => engine.padded
  /\ DateFieldsValid(NumOf(SubSeq(Trim(s), 1, 4)), NumOf(SubSeq(Trim(s), 6, 7)),
                     NumOf(SubSeq(Trim(s), 9, 10)),
                     NumOf(SubSeq(Trim(s), 12, 13)),
                     NumOf(SubSeq(Trim(s), 15, 16)),
                     NumOf(SubSeq(Trim(s), 18, 19)),
                     MillisOf(Trim(s)), ZoneOf(Trim(s)), engine)

\* lines 56-78; the pattern is tested on the trimmed string and the Date is
\* built from the string as given
isValidIso8601(timestamp, engine) ==
  IF timestamp.t # "string" \/ Len(Trim(timestamp.s)) = 0 THEN Return(FALSE)
  ELSE IF ~Iso8601PatternTest(Trim(timestamp.s)) THEN Return(FALSE)
  ELSE IF ~DateIsValid(timestamp.s, engine) THEN Return(FALSE)
  ELSE Return(TRUE)

(***************************************************************************)
(* factories/resource.ts and factories/relationships.ts                    *)
(***************************************************************************)
RecordTypeResource ==
  <<"R","e","s","o","u","r","c","e">>

RecordTypeParentChild ==
  <<"P","a","r","e","n","t","C","h","i","l","d","R","e","l","a","t","i","o","n","s","h","i","p">>

RecordTypeCollectionMember ==
  <<"C","o","l","l","e","c","t","i","o","n","M","e","m","b","e","r","R","e","l","a","t","i","o","n","s","h","i","p">>

RecordTypeUniqueKeyValue ==
  <<"U","n","i","q","u","e","K","e","y","V","a","l","u","e">>

\* x < k for a JavaScript number x: every comparison with NaN is false
NumLess(x, k) == ~x.nan /\ x.n < 2 * k

\* Object.assign(target, source): the keys of source overwrite
ObjectAssign(target, source) ==
  [k \in (DOMAIN target) \cup (DOMAIN source) |->
     IF k \in DOMAIN source THEN source[k] ELSE target[k]]

\* createResource that spreads the attributes first, under the other fields
createResourceRecord_AttributesFirst(options, record) ==
  IF ~Falsy(options.accountUrn) /\ ~IsValidUrn(options.accountUrn)
  THEN Throw("Invalid accountUrn format")
  ELSE Return(ObjectAssign(
         ObjectAssign(IF options.attributes.defined
                      THEN options.attributes.fields ELSE <<>>,
                      record),
         IF ~Falsy(options.accountUrn)
         THEN "_accountUrn" :> options.accountUrn
         ELSE <<>>))

\* lines 116-129: the accountUrn check, then the attributes merged last
createResourceRecord(options, record) ==
  IF ~Falsy(options.accountUrn) /\ ~IsValidUrn(options.accountUrn)
  THEN Throw("Invalid accountUrn format")
  ELSE Return(ObjectAssign(
         ObjectAssign(record,
                      IF ~Falsy(options.accountUrn)
                      THEN "_accountUrn" :> options.accountUrn
                      ELSE <<>>),
         IF options.attributes.defined THEN options.attributes.fields
         ELSE <<>>))

\* createResource that stores the resourceType as it was passed
createResourceKeys_UntrimmedType(options, id, urn, keys, reads) ==
  IF ~keys.ok THEN keys
  ELSE createResourceRecord(options,
         ("PK" :> JsStr(keys.val.PK)) @@ ("SK" :> JsStr(keys.val.SK))
         @@ ("_recordType" :> JsStr(RecordTypeResource))
         @@ ("_resourceType" :> options.resourceType)
         @@ ("_id" :> id) @@ ("urn" :> urn)
         @@ ("_schemaVersion" :> options.schemaVersion)
         @@ ("_createdAt" :> JsStr(getCurrentTimestamp(reads[1])))
         @@ ("_updatedAt" :> JsStr(getCurrentTimestamp(reads[1]))))

\* lines 98-114: keys is the outcome of generateResourceKey(urn); one read of
\* the clock, reads[1], stamps both timestamps
createResourceKeys(options, id, urn, keys, reads) ==
  IF ~keys.ok THEN keys
  ELSE createResourceRecord(options,
         ("PK" :> JsStr(keys.val.PK)) @@ ("SK" :> JsStr(keys.val.SK))
         @@ ("_recordType" :> JsStr(RecordTypeResource))
         @@ ("_resourceType" :> JsStr(Trim(options.resourceType.s)))
         @@ ("_id" :> id) @@ ("urn" :> urn)
         @@ ("_schemaVersion" :> options.schemaVersion)
         @@ ("_createdAt" :> JsStr(getCurrentTimestamp(reads[1])))
         @@ ("_updatedAt" :> JsStr(getCurrentTimestamp(reads[1]))))

\* lines 90-96: created is the outcome of createUrn('pp', resourceType, id)
createResourceUrn(options, id, created, reads) ==
  IF ~created.ok THEN created
  ELSE IF ~IsValidUrn(JsStr(created.val))
  THEN Throw("Failed to create valid URN")
  ELSE createResourceKeys(options, id, JsStr(created.val),
                          generateResourceKey(JsStr(created.val)), reads)

\* lines 82-88: id is options.id || generateUuidV7()
createResourceId(options, id, reads) ==
  IF ~Falsy(options.id) /\ ~UuidV7PatternTest(id.s)
  THEN Throw("Invalid ID format")
  ELSE createResourceUrn(options, id,
         createUrn(JsStr(PpDomain), JsStr(Trim(options.resourceType.s)), id),
         reads)

\* options = [resourceType, id, schemaVersion, accountUrn, attributes];
\* attributes = [defined, fields]; reads holds the values the clock shows at
\* the successive reads of the call, rand the random bits.  generateUuidV7
\* reads the clock when no id is supplied, getCurrentTimestamp reads it next.
createResource(options, reads, rand) ==
  IF Falsy(options.resourceType) \/ Len(Trim(options.resourceType.s)) = 0
  THEN Throw("ResourceType cannot be empty")
  ELSE IF options.schemaVersion.t # "number" \/ NumLess(options.schemaVersion, 1)
  THEN Throw("SchemaVersion must be a positive number")
  ELSE createResourceId(options,
         IF Falsy(options.id) THEN JsStr(generateUuidV7(reads[1], rand))
         ELSE options.id,
         IF Falsy(options.id) THEN Tail(reads) ELSE reads)

(***************************************************************************)
(* The objects of a createResource call: the options object, the object    *)
(* options.attributes refers to and the record literal.  heap holds their  *)
(* own fields, the object that was returned and whether the caller wrote   *)
(* to the attributes after the call.                                       *)
(***************************************************************************)
NoObjects ==
  [options |-> <<>>, attributes |-> <<>>, record |-> <<>>,
   returned |-> "none", mutated |-> FALSE]

\* the own fields of the options object: attributes is a reference
OptionsObject(options) ==
  [resourceType |-> options.resourceType, id |-> options.id,
   schemaVersion |-> options.schemaVersion,
   accountUrn |-> options.accountUrn,
   attributes |-> IF options.attributes.defined THEN "attributes"
                  ELSE "undefined"]

\* the objects the caller passes
ObjectsBefore(options) ==
  [options |-> OptionsObject(options),
   attributes |-> IF options.attributes.defined
                  THEN options.attributes.fields ELSE <<>>,
   record |-> <<>>, returned |-> "none", mutated |-> FALSE]

\* Object.assign(options.attributes, record): the attributes object is
\* written to and returned
createResourceTarget_Attributes(options) ==
  IF options.attributes.defined THEN "attributes" ELSE "record"

\* lines 105-129: the object that Object.assign(record, options.attributes)
\* writes to and that is returned is the record literal
createResourceTarget(options) ==
  "record"

\* the objects after the call: every throw comes before the first write
createResourceObjects(options, outcome) ==
  IF ~outcome.ok THEN ObjectsBefore(options)
  ELSE [ObjectsBefore(options) EXCEPT
          ![createResourceTarget(options)] = outcome.val,
          !.returned = createResourceTarget(options)]

\* _accountUrn written into the record literal, supplied or not
createParentChildRecord_AlwaysAccountUrn(options, keys, reads) ==
  IF ~keys.ok THEN keys
  ELSE IF ~Falsy(options.accountUrn) /\ ~IsValidUrn(options.accountUrn)
  THEN Throw("Invalid accountUrn format")
  ELSE Return(
         ("PK" :> JsStr(keys.val.PK)) @@ ("SK" :> JsStr(keys.val.SK))
         @@ ("_recordType" :> JsStr(RecordTypeParentChild))
         @@ ("parentUrn" :> options.parentUrn)
         @@ ("childUrn" :> options.childUrn)
         @@ ("_createdAt" :> JsStr(getCurrentTimestamp(reads[1])))
         @@ ("_accountUrn" :> options.accountUrn))

\* lines 208-231: keys is the outcome of generateParentChildKey
createParentChildRecord(options, keys, reads) ==
  IF ~keys.ok THEN keys
  ELSE IF ~Falsy(options.accountUrn) /\ ~IsValidUrn(options.accountUrn)
  THEN Throw("Invalid accountUrn format")
  ELSE Return(ObjectAssign(
         ("PK" :> JsStr(keys.val.PK)) @@ ("SK" :> JsStr(keys.val.SK))
         @@ ("_recordType" :> JsStr(RecordTypeParentChild))
         @@ ("parentUrn" :> options.parentUrn)
         @@ ("childUrn" :> options.childUrn)
         @@ ("_createdAt" :> JsStr(getCurrentTimestamp(reads[1]))),
         IF ~Falsy(options.accountUrn)
         THEN "_accountUrn" :> options.accountUrn
         ELSE <<>>))

\* options = [parentUrn, childUrn, accountUrn]
createParentChildRelationship(options, reads) ==
  IF ~IsValidUrn(options.parentUrn) THEN Throw("Invalid parent URN format")
  ELSE IF ~IsValidUrn(options.childUrn) THEN Throw("Invalid child URN format")
  ELSE createParentChildRecord(options,
         generateParentChildKey(options.parentUrn, options.childUrn),
         reads)

\* a collection membership record that stores the accountUrn trimmed
createCollectionMembershipRecord_TrimmedAccountUrn(options, keys, reads) ==
  IF ~keys.ok THEN keys
  ELSE Return(
         ("PK" :> JsStr(keys.val.PK)) @@ ("SK" :> JsStr(keys.val.SK))
         @@ ("_recordType" :> JsStr(RecordTypeCollectionMember))
         @@ ("collectionUrn" :> options.collectionUrn)
         @@ ("memberUrn" :> options.memberUrn)
         @@ ("_createdAt" :> JsStr(getCurrentTimestamp(reads[1])))
         @@ ("_accountUrn" :> JsStr(Trim(options.accountUrn.s))))

\* lines 290-306: keys is the outcome of generateCollectionMemberKey
createCollectionMembershipRecord(options, keys, reads) ==
  IF ~keys.ok THEN keys
  ELSE Return(
         ("PK" :> JsStr(keys.val.PK)) @@ ("SK" :> JsStr(keys.val.SK))
         @@ ("_recordType" :> JsStr(RecordTypeCollectionMember))
         @@ ("collectionUrn" :> options.collectionUrn)
         @@ ("memberUrn" :> options.memberUrn)
         @@ ("_createdAt" :> JsStr(getCurrentTimestamp(reads[1])))
         @@ ("_accountUrn" :> options.accountUrn))

\* the two URNs validated before the presence of accountUrn
createCollectionMembershipRelationship_UrnsFirst(options, reads) ==
  IF ~IsValidUrn(options.collectionUrn)
  THEN Throw("Invalid collection URN format")
  ELSE IF ~IsValidUrn(options.memberUrn)
  THEN Throw("Invalid member URN format")
  ELSE IF Falsy(options.accountUrn) \/ Len(Trim(options.accountUrn.s)) = 0
  THEN Throw("AccountUrn is required for CollectionMembershipRelationship")
  ELSE IF ~IsValidUrn(options.accountUrn)
  THEN Throw("Invalid accountUrn format")
  ELSE createCollectionMembershipRecord(options,
         generateCollectionMemberKey(options.collectionUrn, options.memberUrn),
         reads)

\* options = [collectionUrn, memberUrn, accountUrn]
createCollectionMembershipRelationship(options, reads) ==
  IF Falsy(options.accountUrn) \/ Len(Trim(options.accountUrn.s)) = 0
  THEN Throw("AccountUrn is required for CollectionMembershipRelationship")
  ELSE IF ~IsValidUrn(options.collectionUrn)
  THEN Throw("Invalid collection URN format")
  ELSE IF ~IsValidUrn(options.memberUrn)
  THEN Throw("Invalid member URN format")
  ELSE IF ~IsValidUrn(options.accountUrn)
  THEN Throw("Invalid accountUrn format")
  ELSE createCollectionMembershipRecord(options,
         generateCollectionMemberKey(options.collectionUrn, options.memberUrn),
         reads)

(***************************************************************************)
(* factories/unique-key-value.ts                                           *)
(***************************************************************************)
\* the key and the value stored as supplied
createUniqueKeyValueRecord_Untrimmed(options, keys, reads) ==
  IF ~keys.ok THEN keys
  ELSE Return(ObjectAssign(
         ("PK" :> JsStr(keys.val.PK)) @@ ("SK" :> JsStr(keys.val.SK))
         @@ ("_recordType" :> JsStr(RecordTypeUniqueKeyValue))
         @@ ("_resourceType" :> JsStr(Trim(options.resourceType.s)))
         @@ ("key" :> options.key)
         @@ ("value" :> options.value)
         @@ ("_createdAt" :> JsStr(getCurrentTimestamp(reads[1])))
         @@ ("_updatedAt" :> JsStr(getCurrentTimestamp(reads[1]))),
         IF ~Falsy(options.associatedRecordUrn)
         THEN "associatedRecordUrn" :> options.associatedRecordUrn
         ELSE <<>>))

\* _updatedAt stamped by a second read of the clock
createUniqueKeyValueRecord_TwoClockReads(options, keys, reads) ==
  IF ~keys.ok THEN keys
  ELSE Return(ObjectAssign(
         ("PK" :> JsStr(keys.val.PK)) @@ ("SK" :> JsStr(keys.val.SK))
         @@ ("_recordType" :> JsStr(RecordTypeUniqueKeyValue))
         @@ ("_resourceType" :> JsStr(Trim(options.resourceType.s)))
         @@ ("key" :> JsStr(Trim(options.key.s)))
         @@ ("value" :> JsStr(Trim(options.value.s)))
         @@ ("_createdAt" :> JsStr(getCurrentTimestamp(reads[1])))
         @@ ("_updatedAt" :> JsStr(getCurrentTimestamp(reads[2]))),
         IF ~Falsy(options.associatedRecordUrn)
         THEN "associatedRecordUrn" :> options.associatedRecordUrn
         ELSE <<>>))

\* lines 91-117: keys is the outcome of generateUniqueKeyValueKey
createUniqueKeyValueRecord(options, keys, reads) ==
  IF ~keys.ok THEN keys
  ELSE Return(ObjectAssign(
         ("PK" :> JsStr(keys.val.PK)) @@ ("SK" :> JsStr(keys.val.SK))
         @@ ("_recordType" :> JsStr(RecordTypeUniqueKeyValue))
         @@ ("_resourceType" :> JsStr(Trim(options.resourceType.s)))
         @@ ("key" :> JsStr(Trim(options.key.s)))
         @@ ("value" :> JsStr(Trim(options.value.s)))
         @@ ("_createdAt" :> JsStr(getCurrentTimestamp(reads[1])))
         @@ ("_updatedAt" :> JsStr(getCurrentTimestamp(reads[1]))),
         IF ~Falsy(options.associatedRecordUrn)
         THEN "associatedRecordUrn" :> options.associatedRecordUrn
         ELSE <<>>))

\* the associatedRecordUrn validated before the three strings
createUniqueKeyValue_UrnFirst(options, reads) ==
  IF ~Falsy(options.associatedRecordUrn)
          /\ ~IsValidUrn(options.associatedRecordUrn)
  THEN Throw("Invalid associatedRecordUrn format")
  ELSE IF Falsy(options.resourceType) \/ Len(Trim(options.resourceType.s)) = 0
  THEN Throw("ResourceType cannot be empty")
  ELSE IF Falsy(options.key) \/ Len(Trim(options.key.s)) = 0
  THEN Throw("Key cannot be empty")
  ELSE IF Falsy(options.value) \/ Len(Trim(options.value.s)) = 0
  THEN Throw("Value cannot be empty")
  ELSE createUniqueKeyValueRecord(options,
         generateUniqueKeyValueKey(JsStr(Trim(options.resourceType.s)),
                                   JsStr(Trim(options.key.s)),
                                   JsStr(Trim(options.value.s))),
         reads)

\* options = [resourceType, key, value, associatedRecordUrn]
createUniqueKeyValue(options, reads) ==
  IF Falsy(options.resourceType) \/ Len(Trim(options.resourceType.s)) = 0
  THEN Throw("ResourceType cannot be empty")
  ELSE IF Falsy(options.key) \/ Len(Trim(options.key.s)) = 0
  THEN Throw("Key cannot be empty")
  ELSE IF Falsy(options.value) \/ Len(Trim(options.value.s)) = 0
  THEN Throw("Value cannot be empty")
  ELSE IF ~Falsy(options.associatedRecordUrn)
          /\ ~IsValidUrn(options.associatedRecordUrn)
  THEN Throw("Invalid associatedRecordUrn format")
  ELSE createUniqueKeyValueRecord(options,
         generateUniqueKeyValueKey(JsStr(Trim(options.resourceType.s)),
                                   JsStr(Trim(options.key.s)),
                                   JsStr(Trim(options.value.s))),
         reads)

(***************************************************************************)
(* utils/type-guards.ts: record._recordType === '...' ; a record without   *)
(* the field has _recordType undefined                                     *)
(***************************************************************************)
RecordTypeOf(record) ==
  IF "_recordType" \in DOMAIN record THEN record["_recordType"]
  ELSE JsUndefined

isResourceRecord(record) ==
  RecordTypeOf(record) = JsStr(RecordTypeResource)

isParentChildRelationshipRecord(record) ==
  RecordTypeOf(record) = JsStr(RecordTypeParentChild)

\* the discriminant spelled like the name of the function
isCollectionMembershipRelationshipRecord_LongName(record) ==
  RecordTypeOf(record)
    = JsStr(<<"C","o","l","l","e","c","t","i","o","n","M","e","m","b","e","r",
              "s","h","i","p","R","e","l","a","t","i","o","n","s","h","i","p">>)

isCollectionMembershipRelationshipRecord(record) ==
  RecordTypeOf(record) = JsStr(RecordTypeCollectionMember)

isUniqueKeyValueRecord(record) ==
  RecordTypeOf(record) = JsStr(RecordTypeUniqueKeyValue)

(***************************************************************************)
(* Inputs of the calls                                                     *)
(***************************************************************************)
ClockStart == 15

MaxTicks == 1

UuidA ==
  <<"0","1","9","5","5","5","5","6","-","3","c","d","2","-","7","d","f","2","-","b","8","3","9","-","6","9","3","f","a","6","f","b","d","5","0","5">>

UuidB ==
  <<"0","1","9","5","5","5","5","A","-","3","C","D","2","-","7","D","F","2","-","B","8","3","9","-","6","9","3","F","A","6","F","B","D","5","0","9">>

UuidV4 ==
  <<"0","1","9","5","5","5","5","6","-","3","c","d","2","-","4","d","f","2","-","b","8","3","9","-","6","9","3","f","a","6","f","b","d","5","0","5">>

UuidBadVariant ==
  <<"0","1","9","5","5","5","5","6","-","3","c","d","2","-","7","d","f","2","-","c","8","3","9","-","6","9","3","f","a","6","f","b","d","5","0","5">>

UuidShort ==
  <<"0","1","9","5","5","5","5","6","-","3","c","d","2","-","7","d","f","2","-","b","8","3","9","-","6","9","3","f","a","6","f","b","d","5","0">>

UuidNonHex ==
  <<"g","1","9","5","5","5","5","6","-","3","c","d","2","-","7","d","f","2","-","b","8","3","9","-","6","9","3","f","a","6","f","b","d","5","0","5">>

SystemLit ==
  <<"S","y","s","t","e","m">>

SystemAccountLit ==
  <<"S","y","s","t","e","m",".","A","c","c","o","u","n","t">>

ParentIdLit ==
  <<"p","a","r","e","n","t","-","i","d">>

ChildIdLit ==
  <<"c","h","i","l","d","-","i","d">>

InvalidLit ==
  <<"i","n","v","a","l","i","d">>

UrnNoId ==
  <<"u","r","n",":","p","p",":","S","y","s","t","e","m",".","A","c","c","o","u","n","t">>

\* the text "urn:" d ":" rt "::" id, whatever the components are
UrnText(d, rt, id) == UrnLit \o d \o <<":">> \o rt \o <<":", ":">> \o id

Domains ==
  {PpDomain, <<" ">> \o PpDomain, <<>>, <<" ">>, <<"p", ":", "p">>}

ResourceTypes ==
  {SystemLit, SystemAccountLit, <<" ">> \o SystemLit \o <<"\t">>, <<>>,
   <<" ">>, <<"a", ":", "b">>}

ResourceIds ==
  {UuidA, UuidB, UuidA \o <<" ">>, UuidV4, UuidBadVariant, UuidShort,
   UuidNonHex, ParentIdLit, ChildIdLit, <<>>, <<" ">>}

MalformedUrns ==
  {InvalidLit, <<>>, <<" ">>, UrnNoId,
   <<" ">> \o UrnText(PpDomain, SystemLit, UuidA),
   <<"U","R","N",":">> \o PpDomain \o <<":">> \o SystemLit \o <<":", ":">> \o UuidA,
   UrnLit \o PpDomain \o <<":">> \o SystemLit \o <<":">> \o UuidA,
   UrnText(PpDomain, SystemLit, UuidA) \o <<":">>}

NonStrings == {JsUndefined, JsNull, JsNum(2)}

\* arguments of the one-URN functions
UrnInputs ==
  {JsStr(UrnText(d, rt, id)) :
     d \in Domains, rt \in ResourceTypes, id \in ResourceIds}
  \cup {JsStr(u) : u \in MalformedUrns} \cup NonStrings

\* arguments of the two-URN functions and of the factories
KeyUrnInputs ==
  {JsStr(UrnText(PpDomain, SystemLit, UuidA)),
   JsStr(UrnText(PpDomain, SystemAccountLit, UuidB)),
   JsStr(UrnText(PpDomain, SystemLit, UuidA \o <<" ">>)),
   JsStr(UrnText(PpDomain, SystemLit, ParentIdLit)),
   JsStr(UrnText(PpDomain, SystemAccountLit, ChildIdLit)),
   JsStr(UrnText(PpDomain, SystemLit, UuidV4)),
   JsStr(InvalidLit), JsStr(<<>>), JsStr(<<" ">>), JsUndefined}

ComponentInputs(S) == {JsStr(c) : c \in S} \cup {JsUndefined}

UniqueKeyStrings ==
  {JsStr(<<>>), JsStr(<<" ">>), JsStr(<<"k">>), JsStr(<<" ", "k", "\t">>),
   JsStr(<<"a", "#", "b">>), JsStr(<<"a", " ", "b">>), JsStr(<<"a">>),
   JsStr(<<"b", "#", "k">>), JsUndefined}

\* 1, 0, -1, 0.5, 1.5, NaN and no number at all
SchemaVersions ==
  {JsNum(2), JsNum(0), JsNum(-2), JsNum(1), JsNum(3), JsNaN, JsUndefined}

ResourceTypeInputs ==
  {JsStr(SystemAccountLit), JsStr(<<" ">> \o SystemLit \o <<"\t">>),
   JsStr(<<"a", ":", "b">>), JsStr(<<>>), JsStr(<<" ">>)}

IdInputs ==
  {JsUndefined, JsStr(<<>>), JsStr(<<" ">>), JsStr(UuidA), JsStr(ParentIdLit)}

AccountUrnInputs ==
  {JsUndefined, JsStr(<<>>), JsStr(<<" ">>),
   JsStr(UrnText(PpDomain, SystemAccountLit, UuidB)),
   JsStr(UrnText(PpDomain, SystemAccountLit, UuidA \o <<" ">>)),
   JsStr(InvalidLit)}

AttributeInputs ==
  {[defined |-> FALSE, fields |-> <<>>],
   [defined |-> TRUE, fields |-> ("name" :> JsStr(SystemLit))],
   [defined |-> TRUE, fields |-> ("PK" :> JsStr(InvalidLit))],
   [defined |-> TRUE, fields |-> ("SK" :> JsStr(InvalidLit))],
   [defined |-> TRUE, fields |-> ("urn" :> JsStr(InvalidLit))],
   [defined |-> TRUE,
    fields |-> ("_recordType" :> JsStr(RecordTypeParentChild))],
   [defined |-> TRUE, fields |-> ("_updatedAt" :> JsStr(InvalidLit))],
   [defined |-> TRUE,
    fields |-> ("_resourceType" :> JsStr(<<>>)) @@ ("_id" :> JsNull)
               @@ ("_schemaVersion" :> JsNum(0))
               @@ ("_createdAt" :> JsStr(InvalidLit))
               @@ ("_accountUrn" :> JsStr(InvalidLit))]}

RandomBits ==
  {[a |-> 0, v |-> 0, b |-> 0, c |-> 0],
   [a |-> 4095, v |-> 3, b |-> 4095, c |-> 1]}

\* records handed to generateInvertedIndexKey, one of each record type and
\* with keys that no factory would build
RecordInputs ==
  {("PK" :> JsStr(ResourcePrefix \o u)) @@ ("SK" :> JsStr(ResourcePrefix \o u))
     @@ ("_recordType" :> JsStr(RecordTypeResource)) @@ ("urn" :> JsStr(u)) :
     u \in {UrnText(PpDomain, SystemLit, UuidA), InvalidLit}}
  \cup
  {("PK" :> JsStr(ParentPrefix \o u)) @@ ("SK" :> JsStr(ChildPrefix \o w))
     @@ ("_recordType" :> JsStr(RecordTypeParentChild))
     @@ ("parentUrn" :> JsStr(u)) @@ ("childUrn" :> JsStr(w)) :
     u \in {UrnText(PpDomain, SystemLit, ParentIdLit)},
     w \in {UrnText(PpDomain, SystemAccountLit, ChildIdLit), <<>>}}
  \cup
  {("PK" :> JsStr(CollectionPrefix \o u)) @@ ("SK" :> JsStr(MemberPrefix \o w))
     @@ ("_recordType" :> JsStr(RecordTypeCollectionMember))
     @@ ("collectionUrn" :> JsStr(u)) @@ ("memberUrn" :> JsStr(w)) :
     u \in {UrnText(PpDomain, SystemLit, UuidA)},
     w \in {UrnText(PpDomain, SystemAccountLit, UuidB), InvalidLit}}
  \cup
  {("PK" :> JsStr(UniqueKeyValuePrefix \o k \o <<"#">> \o v))
     @@ ("SK" :> JsStr(UniqueKeyValuePrefix \o k))
     @@ ("_recordType" :> JsStr(RecordTypeUniqueKeyValue))
     @@ ("key" :> JsStr(k)) @@ ("value" :> JsStr(v)) :
     k \in {<<"k">>}, v \in {<<"v">>, <<>>}}
  \cup
  {("PK" :> x) @@ ("SK" :> y) @@ ("_recordType" :> JsStr(RecordTypeResource)) :
     x \in {JsStr(<<>>), JsStr(InvalidLit)}, y \in {JsStr(<<"#">>), JsUndefined}}

TimestampDates ==
  {<<"2","0","2","4","-","0","1","-","1","5">>,
   <<"2","0","2","4","-","0","2","-","2","9">>,
   <<"2","0","2","3","-","0","2","-","2","9">>,
   <<"2","0","2","4","-","0","2","-","3","0">>,
   <<"2","0","2","4","-","1","3","-","4","5">>,
   <<"2","0","2","4","-","0","0","-","1","0">>,
   <<"2","0","2","4","-","1","2","-","3","1">>}

TimestampTimes ==
  {<<"1","0",":","3","0",":","4","5">>,
   <<"2","3",":","5","9",":","5","9">>,
   <<"2","5",":","7","0",":","9","9">>,
   <<"2","4",":","0","0",":","0","0">>,
   <<"0","0",":","0","0",":","0","0">>}

TimestampFractions ==
  {<<>>,
   <<".","1","2","3">>,
   <<".","1","2">>,
   <<".","0","0","0">>}

TimestampZones ==
  {<<>>,
   <<"Z">>,
   <<"+","0","5",":","0","0">>,
   <<"-","0","5",":","0","0">>,
   <<"z">>,
   <<"+","5",":","0","0">>}

OtherTimestamps ==
  {<<"i","n","v","a","l","i","d">>,
   <<>>,
   <<" ">>,
   <<"2","0","2","4","-","0","1","-","1","5">>,
   <<"1","0",":","3","0",":","4","5">>,
   <<" ","2","0","2","4","-","0","1","-","1","5","T","1","0",":","3","0",":","4","5","Z">>,
   <<"2","0","2","4","-","0","1","-","1","5","T","1","0",":","3","0",":","4","5"," ">>,
   <<"2","0","2","4","-","0","1","-","1","5","t","1","0",":","3","0",":","4","5","Z">>,
   <<"2","0","2","4","-","0","1","-","1","5","T","1","0",":","3","0",":","4","5","Z","0">>,
   <<"2","0","2","4","-","0","1","-","1","5"," ","1","0",":","3","0",":","4","5","Z">>}

TimestampInputs ==
  {JsStr(d \o <<"T">> \o t \o f \o z) :
     d \in TimestampDates, t \in TimestampTimes, f \in TimestampFractions,
     z \in TimestampZones}
  \cup {JsStr(x) : x \in OtherTimestamps}
  \cup {JsStr(getCurrentTimestamp(ClockStart)), JsUndefined, JsNum(2)}

OneUrnArgs == {[urn |-> x] : x \in UrnInputs}

CreateUrnArgs ==
  {[domain |-> d, resourceType |-> rt, resourceId |-> id] :
     d \in ComponentInputs(Domains), rt \in ComponentInputs(ResourceTypes),
     id \in ComponentInputs(ResourceIds)}

ParentChildKeyArgs ==
  {[parentUrn |-> x, childUrn |-> y] : x \in KeyUrnInputs, y \in KeyUrnInputs}

CollectionMemberKeyArgs ==
  {[collectionUrn |-> x, memberUrn |-> y] :
     x \in KeyUrnInputs, y \in KeyUrnInputs}

UniqueKeyValueKeyArgs ==
  {[resourceType |-> rt, key |-> k, value |-> v] :
     rt \in UniqueKeyStrings, k \in UniqueKeyStrings, v \in UniqueKeyStrings}

InvertedIndexKeyArgs == {[record |-> r] : r \in RecordInputs}

\* records handed to the type guards, one of them without a _recordType
TypeGuardArgs ==
  InvertedIndexKeyArgs
  \cup {[record |-> ("PK" :> JsStr(InvalidLit)) @@ ("SK" :> JsStr(InvalidLit))]}

TimestampArgs == {[timestamp |-> x] : x \in TimestampInputs}

AccountIndexKeyArgs ==
  {[accountUrn |-> x, urn |-> y] : x \in KeyUrnInputs, y \in KeyUrnInputs}

CreateResourceArgs ==
  {[resourceType |-> rt, id |-> id, schemaVersion |-> sv, accountUrn |-> acc,
    attributes |-> attrs] :
     rt \in ResourceTypeInputs, id \in IdInputs, sv \in SchemaVersions,
     acc \in AccountUrnInputs, attrs \in AttributeInputs}

ParentChildArgs ==
  {[parentUrn |-> x, childUrn |-> y, accountUrn |-> acc] :
     x \in KeyUrnInputs, y \in KeyUrnInputs, acc \in AccountUrnInputs}

AssociatedUrnInputs ==
  {JsUndefined, JsStr(<<>>), JsStr(<<" ">>),
   JsStr(UrnText(PpDomain, SystemLit, UuidA)),
   JsStr(UrnText(PpDomain, SystemAccountLit, UuidB \o <<" ">>)),
   JsStr(InvalidLit)}

UniqueKeyValueArgs ==
  {[resourceType |-> rt, key |-> k, value |-> v, associatedRecordUrn |-> u] :
     rt \in UniqueKeyStrings, k \in UniqueKeyStrings, v \in UniqueKeyStrings,
     u \in AssociatedUrnInputs}

CollectionMembershipArgs ==
  {[collectionUrn |-> x, memberUrn |-> y, accountUrn |-> acc] :
     x \in KeyUrnInputs, y \in KeyUrnInputs, acc \in AccountUrnInputs}

(***************************************************************************)
(* The caller.  The library keeps no state of its own: op, args and ret    *)
(* hold the call last made, its arguments and its outcome.  A call is made *)
(* when no call was made yet, or is made again with the same arguments.    *)
(***************************************************************************)
Init ==
  /\ op = "idle"
  /\ args = <<>>
  /\ ret = Return(<<>>)
  /\ clock = ClockStart
  /\ heap = NoObjects

\* the objects of the call o after it ended
ObjectsAfter(o, a, r) ==
  IF o = "createResource" THEN createResourceObjects(a, r) ELSE NoObjects

Call(o, a, r) ==
  /\ op' = o
  /\ args' = a
  /\ ret' = r
  /\ heap' = ObjectsAfter(o, a, r)
  /\ UNCHANGED clock

\* the values the clock shows at the successive reads of one call that starts
\* at c: the clock may advance between any two reads
ClockReads(c) ==
  {r \in {<<c, m, l>> : m \in c..(ClockStart + MaxTicks),
                        l \in c..(ClockStart + MaxTicks)} : r[2] <= r[3]}

\* a call that reads the clock: the call ends at the time of its last read
CallAt(o, a, r, reads) ==
  /\ op' = o
  /\ args' = a
  /\ ret' = r
  /\ heap' = ObjectsAfter(o, a, r)
  /\ clock' = reads[Len(reads)]

\* the arguments a call of o may take in this state
ArgsFor(o, fresh) ==
  IF op = "idle" THEN fresh ELSE IF op = o THEN {args} ELSE {}

Tick ==
  /\ clock < ClockStart + MaxTicks
  /\ clock' = clock + 1
  /\ UNCHANGED <<op, args, ret, heap>>

ParseUrn ==
  \E a \in ArgsFor("parseUrn", OneUrnArgs) :
    Call("parseUrn", a, parseUrn(a.urn))

CreateUrn ==
  \E a \in ArgsFor("createUrn", CreateUrnArgs) :
    Call("createUrn", a, createUrn(a.domain, a.resourceType, a.resourceId))

ValidateUrn ==
  \E a \in ArgsFor("validateUrn", OneUrnArgs) :
    Call("validateUrn", a, validateUrn(a.urn))

GenerateResourceKey ==
  \E a \in ArgsFor("generateResourceKey", OneUrnArgs) :
    Call("generateResourceKey", a, generateResourceKey(a.urn))

GenerateParentChildKey ==
  \E a \in ArgsFor("generateParentChildKey", ParentChildKeyArgs) :
    Call("generateParentChildKey", a,
         generateParentChildKey(a.parentUrn, a.childUrn))

GenerateCollectionMemberKey ==
  \E a \in ArgsFor("generateCollectionMemberKey", CollectionMemberKeyArgs) :
    Call("generateCollectionMemberKey", a,
         generateCollectionMemberKey(a.collectionUrn, a.memberUrn))

GenerateUniqueKeyValueKey ==
  \E a \in ArgsFor("generateUniqueKeyValueKey", UniqueKeyValueKeyArgs) :
    Call("generateUniqueKeyValueKey", a,
         generateUniqueKeyValueKey(a.resourceType, a.key, a.value))

\* the record is one the caller built, or the one a factory just returned
GenerateInvertedIndexKey ==
  \E a \in IF op \in {"createResource", "createParentChildRelationship",
                      "createCollectionMembershipRelationship",
                      "createUniqueKeyValue"}
              /\ ret.ok
           THEN {[record |-> ret.val]}
           ELSE ArgsFor("generateInvertedIndexKey", InvertedIndexKeyArgs) :
    Call("generateInvertedIndexKey", a, generateInvertedIndexKey(a.record))

\* the records a type guard may be called on in this state: the one a
\* factory just returned, or one the caller built
GuardArgsFor(o) ==
  IF op \in {"createResource", "createParentChildRelationship",
             "createCollectionMembershipRelationship",
             "createUniqueKeyValue"}
     /\ ret.ok
  THEN {[record |-> ret.val]}
  ELSE ArgsFor(o, TypeGuardArgs)

IsResourceRecord ==
  \E a \in GuardArgsFor("isResourceRecord") :
    Call("isResourceRecord", a, Return(isResourceRecord(a.record)))

IsParentChildRelationshipRecord ==
  \E a \in GuardArgsFor("isParentChildRelationshipRecord") :
    Call("isParentChildRelationshipRecord", a,
         Return(isParentChildRelationshipRecord(a.record)))

IsCollectionMembershipRelationshipRecord ==
  \E a \in GuardArgsFor("isCollectionMembershipRelationshipRecord") :
    Call("isCollectionMembershipRelationshipRecord", a,
         Return(isCollectionMembershipRelationshipRecord(a.record)))

IsUniqueKeyValueRecord ==
  \E a \in GuardArgsFor("isUniqueKeyValueRecord") :
    Call("isUniqueKeyValueRecord", a,
         Return(isUniqueKeyValueRecord(a.record)))

\* the call runs on one of the engines
IsValidIso8601 ==
  \E a \in ArgsFor("isValidIso8601", TimestampArgs) :
    \E engine \in Engines :
      Call("isValidIso8601", a, isValidIso8601(a.timestamp, engine))

\* generateUuidV7 takes no argument: args keeps the clock value and the
\* random bits the call drew
GenerateUuidV7 ==
  /\ op \in {"idle", "generateUuidV7"}
  /\ \E rand \in RandomBits :
       Call("generateUuidV7", [now |-> clock, rand |-> rand],
            Return(generateUuidV7(clock, rand)))

GenerateAccountIndexKey ==
  \E a \in ArgsFor("generateAccountIndexKey", AccountIndexKeyArgs) :
    Call("generateAccountIndexKey", a,
         generateAccountIndexKey(a.accountUrn, a.urn))

\* the random bits are read only when no id is supplied
CreateResource ==
  \E a \in ArgsFor("createResource", CreateResourceArgs) :
    \E rand \in RandomBits, reads \in ClockReads(clock) :
      CallAt("createResource", a, createResource(a, reads, rand), reads)

\* after createResource returned, the caller adds or changes a top-level key
\* of the attributes object it passed
MutateAttributes ==
  /\ op = "createResource"
  /\ ret.ok
  /\ args.attributes.defined
  /\ ~heap.mutated
  /\ \E k \in {"name", "urn", "later"} :
       heap' = [heap EXCEPT
                  !.attributes = ObjectAssign(@, k :> JsStr(ChildIdLit)),
                  !.mutated = TRUE]
  /\ UNCHANGED <<op, args, ret, clock>>

CreateParentChildRelationship ==
  \E a \in ArgsFor("createParentChildRelationship", ParentChildArgs) :
    \E reads \in ClockReads(clock) :
      CallAt("createParentChildRelationship", a,
             createParentChildRelationship(a, reads), reads)

CreateCollectionMembershipRelationship ==
  \E a \in ArgsFor("createCollectionMembershipRelationship",
                    CollectionMembershipArgs) :
    \E reads \in ClockReads(clock) :
      CallAt("createCollectionMembershipRelationship", a,
             createCollectionMembershipRelationship(a, reads), reads)

CreateUniqueKeyValue ==
  \E a \in ArgsFor("createUniqueKeyValue", UniqueKeyValueArgs) :
    \E reads \in ClockReads(clock) :
      CallAt("createUniqueKeyValue", a, createUniqueKeyValue(a, reads), reads)

Next ==
  \/ Tick
  \/ ParseUrn
  \/ CreateUrn
  \/ ValidateUrn
  \/ GenerateResourceKey
  \/ GenerateParentChildKey
  \/ GenerateCollectionMemberKey
  \/ GenerateUniqueKeyValueKey
  \/ GenerateInvertedIndexKey
  \/ GenerateAccountIndexKey
  \/ CreateResource
  \/ CreateParentChildRelationship
  \/ CreateCollectionMembershipRelationship
  \/ CreateUniqueKeyValue
  \/ IsResourceRecord
  \/ IsParentChildRelationshipRecord
  \/ IsCollectionMembershipRelationshipRecord
  \/ IsUniqueKeyValueRecord
  \/ IsValidIso8601
  \/ GenerateUuidV7
  \/ MutateAttributes

Spec == Init /\ [][Next]_vars

(***************************************************************************)
(* Properties                                                              *)
(***************************************************************************)
IsHex(s) == \A i \in 1..Len(s) : s[i] \in HexDigits

\* 8-4-4-4-12 hex groups, the third starting with 7, the fourth with one of
\* 8, 9, a, b
UuidV7Grammar(s) ==
  /\ Len(s) = 36
  /\ s[9] = "-" /\ s[14] = "-" /\ s[19] = "-" /\ s[24] = "-"
  /\ IsHex(SubSeq(s, 1, 8)) /\ IsHex(SubSeq(s, 10, 13))
  /\ IsHex(SubSeq(s, 15, 18)) /\ IsHex(SubSeq(s, 20, 23))
  /\ IsHex(SubSeq(s, 25, 36))
  /\ s[15] = "7"
  /\ s[20] \in {"8", "9", "a", "b", "A", "B"}

\* C1: validateUrn never throws, and returns true exactly when parseUrn
\* succeeds on the input and the parsed resourceId is a UUID v7; for every
\* other input, non-strings included, it returns false.
C1_ValidateUrnIffParsedUuidV7 ==
  op = "validateUrn" =>
    /\ ret.ok
    /\ ret.val = (/\ parseUrn(args.urn).ok
                  /\ UuidV7Grammar(parseUrn(args.urn).val.resourceId))

C1_Witness ==
  /\ op = "validateUrn"
  /\ ret.ok
  /\ ret.val
  /\ args.urn.s # Trim(args.urn.s)

\* C2 as stated: whenever createUrn returns a URN, parseUrn of that URN
\* succeeds and returns the trimmed domain, resourceType and resourceId.
C2_RoundTripWheneverCreated ==
  (op = "createUrn" /\ ret.ok) =>
    LET parsed == parseUrn(JsStr(ret.val)) IN
      /\ parsed.ok
      /\ parsed.val = [domain |-> Trim(args.domain.s),
                       resourceType |-> Trim(args.resourceType.s),
                       resourceId |-> Trim(args.resourceId.s)]

\* C2 amended: the round trip holds whenever createUrn returns a URN for a
\* domain and a resourceType that contain no colon.
C2_RoundTripColonFree ==
  (/\ op = "createUrn"
   /\ ret.ok
   /\ NoColon(args.domain.s)
   /\ NoColon(args.resourceType.s)) =>
    LET parsed == parseUrn(JsStr(ret.val)) IN
      /\ parsed.ok
      /\ parsed.val = [domain |-> Trim(args.domain.s),
                       resourceType |-> Trim(args.resourceType.s),
                       resourceId |-> Trim(args.resourceId.s)]

C2_Witness ==
  /\ op = "createUrn"
  /\ ret.ok
  /\ NoColon(args.domain.s)
  /\ NoColon(args.resourceType.s)
  /\ args.domain.s # Trim(args.domain.s)
  /\ args.resourceId.s # Trim(args.resourceId.s)

C3_KeyOfValidUrn ==
  op = "generateResourceKey" =>
    IF IsValidUrn(args.urn)
    THEN /\ ret.ok
         /\ ret.val = [PK |-> ResourcePrefix \o args.urn.s,
                       SK |-> ResourcePrefix \o args.urn.s]
    ELSE ~ret.ok

C3_SameCallSameResult ==
  (op = "generateResourceKey" /\ op' = op /\ args' = args) => ret' = ret

\* C3: generateResourceKey returns PK = SK = "Resource#" followed by the urn
\* unchanged when validateUrn(urn) is true, throws when it is false, and a
\* second call with the same urn gives the same result as the first.
C3_ResourceKey == [](C3_KeyOfValidUrn) /\ [][C3_SameCallSameResult]_vars

C3_Witness ==
  /\ op = "generateResourceKey"
  /\ ret.ok
  /\ args.urn.s # Trim(args.urn.s)
  /\ clock > ClockStart

\* C4: for two URNs that pass validateUrn, generateParentChildKey returns
\* Parent#parentUrn / Child#childUrn, generateCollectionMemberKey returns
\* Collection#collectionUrn / Member#memberUrn, and generateAccountIndexKey
\* returns the two URNs unchanged and without a prefix.
C4_TwoUrnKeys ==
  /\ (/\ op = "generateParentChildKey"
      /\ IsValidUrn(args.parentUrn)
      /\ IsValidUrn(args.childUrn)) =>
       /\ ret.ok
       /\ ret.val = [PK |-> ParentPrefix \o args.parentUrn.s,
                     SK |-> ChildPrefix \o args.childUrn.s]
  /\ (/\ op = "generateCollectionMemberKey"
      /\ IsValidUrn(args.collectionUrn)
      /\ IsValidUrn(args.memberUrn)) =>
       /\ ret.ok
       /\ ret.val = [PK |-> CollectionPrefix \o args.collectionUrn.s,
                     SK |-> MemberPrefix \o args.memberUrn.s]
  /\ (/\ op = "generateAccountIndexKey"
      /\ IsValidUrn(args.accountUrn)
      /\ IsValidUrn(args.urn)) =>
       /\ ret.ok
       /\ ret.val = [GSI2PK |-> args.accountUrn.s, GSI2SK |-> args.urn.s]

C4_Witness ==
  /\ op = "generateAccountIndexKey"
  /\ ret.ok
  /\ args.accountUrn # args.urn
  /\ args.urn.s # Trim(args.urn.s)

\* C5: the key functions and createParentChildRelationship accept URNs of the
\* shape urn:A:B::C whose resourceId is any non-empty colon-free token, such
\* as urn:pp:System::parent-id, and return their keys or record.
C5_AnyResourceIdAccepted ==
  /\ (/\ op = "generateParentChildKey"
      /\ parseUrn(args.parentUrn).ok
      /\ parseUrn(args.childUrn).ok) => ret.ok
  /\ (/\ op = "generateCollectionMemberKey"
      /\ parseUrn(args.collectionUrn).ok
      /\ parseUrn(args.memberUrn).ok) => ret.ok
  /\ (/\ op = "generateAccountIndexKey"
      /\ parseUrn(args.accountUrn).ok
      /\ parseUrn(args.urn).ok) => ret.ok
  /\ (/\ op = "createParentChildRelationship"
      /\ parseUrn(args.parentUrn).ok
      /\ parseUrn(args.childUrn).ok
      /\ Falsy(args.accountUrn)) => ret.ok

\* undefined, empty or whitespace-only
IsBlank(x) == x.t # "string" \/ Trim(x.s) = <<>>

\* C6: generateUniqueKeyValueKey throws for a blank resourceType, then key,
\* then value; otherwise PK = UniqueKeyValue#rt#k#v and SK = UniqueKeyValue#rt#k
\* of the trimmed arguments, so that the trimmed arguments give the same
\* result and PK = SK # v.
C6_UniqueKeyValueKey ==
  op = "generateUniqueKeyValueKey" =>
    IF IsBlank(args.resourceType)
    THEN ~ret.ok /\ ret.err = "ResourceType cannot be empty"
    ELSE IF IsBlank(args.key)
    THEN ~ret.ok /\ ret.err = "Key cannot be empty"
    ELSE IF IsBlank(args.value)
    THEN ~ret.ok /\ ret.err = "Value cannot be empty"
    ELSE /\ ret.ok
         /\ ret.val.PK = UniqueKeyValuePrefix \o Trim(args.resourceType.s)
                           \o <<"#">> \o Trim(args.key.s)
                           \o <<"#">> \o Trim(args.value.s)
         /\ ret.val.SK = UniqueKeyValuePrefix \o Trim(args.resourceType.s)
                           \o <<"#">> \o Trim(args.key.s)
         /\ ret.val.PK = ret.val.SK \o <<"#">> \o Trim(args.value.s)
         /\ ret = generateUniqueKeyValueKey(JsStr(Trim(args.resourceType.s)),
                                            JsStr(Trim(args.key.s)),
                                            JsStr(Trim(args.value.s)))

C6_Witness ==
  /\ op = "generateUniqueKeyValueKey"
  /\ ret.ok
  /\ args.resourceType.s # Trim(args.resourceType.s)
  /\ args.value.s # Trim(args.value.s)

\* C7: generateInvertedIndexKey never throws and validates nothing: for every
\* record it returns GSI1PK = record.SK and GSI1SK = record.PK, and swapping
\* the returned pair again gives back (PK, SK).
C7_InvertedIndexKey ==
  op = "generateInvertedIndexKey" =>
    /\ ret.ok
    /\ ret.val.GSI1PK = args.record["SK"]
    /\ ret.val.GSI1SK = args.record["PK"]
    /\ generateInvertedIndexKey(
         ("PK" :> ret.val.GSI1PK) @@ ("SK" :> ret.val.GSI1SK)).val
       = [GSI1PK |-> args.record["PK"], GSI1SK |-> args.record["SK"]]

C7_Witness ==
  /\ op = "generateInvertedIndexKey"
  /\ ret.ok
  /\ args.record["PK"] # args.record["SK"]
  /\ args.record["_recordType"] = JsStr(RecordTypeParentChild)
  /\ "_createdAt" \in DOMAIN args.record

\* C8 as stated: every record createResource returns, whatever the attributes,
\* has PK = SK = "Resource#" followed by its own urn field.
C8_ResourceKeysAlways ==
  (op = "createResource" /\ ret.ok) =>
    /\ ret.val["PK"] = ret.val["SK"]
    /\ ret.val["PK"] = JsStr(ResourcePrefix \o ret.val["urn"].s)

\* the attributes name none of the fields ks
AttributesAvoid(options, ks) ==
  options.attributes.defined => (DOMAIN options.attributes.fields) \cap ks = {}

\* C8 amended: every record createResource returns for options whose
\* attributes have none of the keys PK, SK and urn has PK = SK = "Resource#"
\* followed by its own urn field.
C8_ResourceKeysUnlessOverridden ==
  (/\ op = "createResource"
   /\ ret.ok
   /\ AttributesAvoid(args, {"PK", "SK", "urn"})) =>
    /\ ret.val["PK"] = ret.val["SK"]
    /\ ret.val["PK"] = JsStr(ResourcePrefix \o ret.val["urn"].s)

C8_Witness ==
  /\ op = "createResource"
  /\ ret.ok
  /\ args.attributes.defined
  /\ "name" \in DOMAIN ret.val
  /\ args.resourceType.s # Trim(args.resourceType.s)

\* an integer greater than or equal to 1
IsIntegerAtLeastOne(x) ==
  x.t = "number" /\ ~x.nan /\ x.n % 2 = 0 /\ x.n >= 2

\* C9: createResource throws for every schemaVersion that is not an integer
\* greater than or equal to 1.
C9_SchemaVersionRejected ==
  (op = "createResource" /\ ~IsIntegerAtLeastOne(args.schemaVersion)) =>
    ~ret.ok

\* the error the order of C10 asks for, "" when every check passes
C10_FirstFailure(options) ==
  IF IsBlank(options.resourceType) THEN "ResourceType cannot be empty"
  ELSE IF ~IsIntegerAtLeastOne(options.schemaVersion)
  THEN "SchemaVersion must be a positive number"
  ELSE IF ~Falsy(options.id) /\ ~UuidV7Grammar(options.id.s)
  THEN "Invalid ID format"
  ELSE IF ~Falsy(options.accountUrn) /\ ~IsValidUrn(options.accountUrn)
  THEN "Invalid accountUrn format"
  ELSE ""

\* C10: createResource throws the error of the first failing check in the
\* order resourceType, schemaVersion, id, accountUrn, and returns no record.
C10_ErrorOrder ==
  (op = "createResource" /\ C10_FirstFailure(args) # "") =>
    /\ ~ret.ok
    /\ ret.err = C10_FirstFailure(args)

\* the error the order of C11 asks for, "" when every check passes
C11_FirstFailure(options) ==
  IF IsBlank(options.accountUrn)
  THEN "AccountUrn is required for CollectionMembershipRelationship"
  ELSE IF ~IsValidUrn(options.collectionUrn)
  THEN "Invalid collection URN format"
  ELSE IF ~IsValidUrn(options.memberUrn)
  THEN "Invalid member URN format"
  ELSE IF ~IsValidUrn(options.accountUrn)
  THEN "Invalid accountUrn format"
  ELSE ""

C13_FirstFailure(options) ==
  IF IsBlank(options.resourceType) THEN "ResourceType cannot be empty"
  ELSE IF IsBlank(options.key) THEN "Key cannot be empty"
  ELSE IF IsBlank(options.value) THEN "Value cannot be empty"
  ELSE IF ~Falsy(options.associatedRecordUrn)
          /\ ~IsValidUrn(options.associatedRecordUrn)
  THEN "Invalid associatedRecordUrn format"
  ELSE ""

\* C13: createUniqueKeyValue throws the error of the first failing check in
\* the order: blank resourceType, blank key, blank value, supplied (non-empty)
\* associatedRecordUrn failing validateUrn; so with all four invalid the error
\* is the resourceType one, and the associatedRecordUrn error is thrown only
\* when the three strings are non-blank.
C13_UniqueKeyValueErrorOrder ==
  op = "createUniqueKeyValue" =>
    /\ IF C13_FirstFailure(args) = "" THEN ret.ok
       ELSE ~ret.ok /\ ret.err = C13_FirstFailure(args)
    /\ (~ret.ok /\ ret.err = "Invalid associatedRecordUrn format") =>
         /\ ~IsBlank(args.resourceType)
         /\ ~IsBlank(args.key)
         /\ ~IsBlank(args.value)

C13_Witness ==
  /\ op = "createUniqueKeyValue"
  /\ ~ret.ok
  /\ ret.err = "ResourceType cannot be empty"
  /\ args.resourceType = JsStr(<<" ">>)
  /\ IsBlank(args.key)
  /\ IsBlank(args.value)
  /\ args.associatedRecordUrn = JsStr(InvalidLit)

\* C14: every record createUniqueKeyValue returns has _recordType
\* 'UniqueKeyValue', holds the trimmed resourceType, key and value, has
\* PK = UniqueKeyValue#_resourceType#key#value and
\* SK = UniqueKeyValue#_resourceType#key of those stored fields, and has an
\* associatedRecordUrn field exactly when a non-empty one was supplied, equal
\* to the supplied value.
C14_UniqueKeyValueRecord ==
  (op = "createUniqueKeyValue" /\ ret.ok) =>
    /\ ret.val["_recordType"] = JsStr(RecordTypeUniqueKeyValue)
    /\ ret.val["_resourceType"] = JsStr(Trim(args.resourceType.s))
    /\ ret.val["key"] = JsStr(Trim(args.key.s))
    /\ ret.val["value"] = JsStr(Trim(args.value.s))
    /\ ret.val["PK"] = JsStr(UniqueKeyValuePrefix \o ret.val["_resourceType"].s
                               \o <<"#">> \o ret.val["key"].s
                               \o <<"#">> \o ret.val["value"].s)
    /\ ret.val["SK"] = JsStr(UniqueKeyValuePrefix \o ret.val["_resourceType"].s
                               \o <<"#">> \o ret.val["key"].s)
    /\ ("associatedRecordUrn" \in DOMAIN ret.val)
         <=> (args.associatedRecordUrn.t = "string"
              /\ args.associatedRecordUrn.s # <<>>)
    /\ ("associatedRecordUrn" \in DOMAIN ret.val) =>
         ret.val["associatedRecordUrn"] = args.associatedRecordUrn

C14_Witness ==
  /\ op = "createUniqueKeyValue"
  /\ ret.ok
  /\ args.key.s # Trim(args.key.s)
  /\ args.value.s # Trim(args.value.s)
  /\ "associatedRecordUrn" \in DOMAIN ret.val
  /\ ret.val["associatedRecordUrn"].s # Trim(ret.val["associatedRecordUrn"].s)

\* a factory has just returned a record
C15_RecordBuilt ==
  /\ op \in {"createResource", "createParentChildRelationship",
              "createCollectionMembershipRelationship", "createUniqueKeyValue"}
  /\ ret.ok

\* the type guard called in this step on that record answers true exactly
\* when it is the guard of the factory that built the record
C15_OwnGuardOnly ==
  /\ op' = "isResourceRecord" => ret'.val = (op = "createResource")
  /\ op' = "isParentChildRelationshipRecord" =>
       ret'.val = (op = "createParentChildRelationship")
  /\ op' = "isCollectionMembershipRelationshipRecord" =>
       ret'.val = (op = "createCollectionMembershipRelationship")
  /\ op' = "isUniqueKeyValueRecord" =>
       ret'.val = (op = "createUniqueKeyValue")

\* C15 as stated: on every record returned by any of the four factories,
\* exactly one of the four type guards returns true, the one of the factory
\* that built the record.
C15_ExactlyOwnGuard ==
  [][C15_RecordBuilt => C15_OwnGuardOnly]_vars

\* C15 amended: the same, for the records of the three other factories and
\* for the records createResource returns for options whose attributes do
\* not have the key _recordType.
C15_ExactlyOwnGuardUnlessOverridden ==
  [][(/\ C15_RecordBuilt
      /\ op = "createResource" => AttributesAvoid(args, {"_recordType"}))
     => C15_OwnGuardOnly]_vars

C15_Witness ==
  /\ op = "isCollectionMembershipRelationshipRecord"
  /\ ret.val = TRUE
  /\ "_createdAt" \in DOMAIN args.record
  /\ "_accountUrn" \in DOMAIN args.record

\* a date, 'T' and a time: dddd-dd-ddTdd:dd:dd
C16_DateTime(s) ==
  /\ Len(s) >= 19
  /\ \A i \in {1, 2, 3, 4, 6, 7, 9, 10, 12, 13, 15, 16, 18, 19} :
       s[i] \in Digits
  /\ s[5] = "-" /\ s[8] = "-" /\ s[11] = "T" /\ s[14] = ":" /\ s[17] = ":"

\* what follows the time and the optional '.mmm' part
C16_Suffix(s) ==
  IF Len(s) >= 23 /\ s[20] = "." /\ IsDigits(SubSeq(s, 21, 23))
  THEN SubSeq(s, 24, Len(s))
  ELSE SubSeq(s, 20, Len(s))

\* 'Z', '+HH:MM' or '-HH:MM'
C16_IsZone(z) ==
  \/ z = <<"Z">>
  \/ /\ Len(z) = 6
     /\ z[1] \in {"+", "-"}
     /\ z[4] = ":"
     /\ \A i \in {2, 3, 5, 6} : z[i] \in Digits

\* a real day of a real month, a time of the day up to 23:59:59, and an
\* offset up to 23:59
C16_CalendarValid(s) ==
  /\ NumOf(SubSeq(s, 6, 7)) \in 1..12
  /\ NumOf(SubSeq(s, 9, 10))
       \in 1..DaysInMonth(NumOf(SubSeq(s, 1, 4)), NumOf(SubSeq(s, 6, 7)))
  /\ NumOf(SubSeq(s, 12, 13)) <= 23
  /\ NumOf(SubSeq(s, 15, 16)) <= 59
  /\ NumOf(SubSeq(s, 18, 19)) <= 59
  /\ Len(C16_Suffix(s)) = 6 =>
       /\ NumOf(SubSeq(C16_Suffix(s), 2, 3)) <= 23
       /\ NumOf(SubSeq(C16_Suffix(s), 5, 6)) <= 59

\* a month outside 01-12, a day outside 01-31, an hour above 24, a minute or
\* a second above 59
C16_OutOfRange(s) ==
  \/ NumOf(SubSeq(s, 6, 7)) \notin 1..12
  \/ NumOf(SubSeq(s, 9, 10)) \notin 1..31
  \/ NumOf(SubSeq(s, 12, 13)) > 24
  \/ NumOf(SubSeq(s, 15, 16)) > 59
  \/ NumOf(SubSeq(s, 18, 19)) > 59

\* C16 as stated: isValidIso8601 never throws and returns true exactly for
\* the strings made of a date, 'T', a time, an optional '.mmm' part and a
\* mandatory zone suffix, 'Z' or an offset, that denote a valid calendar date
\* and time; a string without a zone suffix is rejected.
C16_MandatoryZone ==
  op = "isValidIso8601" =>
    /\ ret.ok
    /\ ret.val = (/\ args.timestamp.t = "string"
                  /\ C16_DateTime(args.timestamp.s)
                  /\ C16_IsZone(C16_Suffix(args.timestamp.s))
                  /\ C16_CalendarValid(args.timestamp.s))

\* C16 amended: isValidIso8601 never throws; it returns false for a
\* non-string, for a string whose trimmed form is not a date, 'T', a time, an
\* optional '.mmm' part and an optional zone suffix, and for one of that form
\* with a field out of range; it returns true for an unpadded string of that
\* form, with or without a zone suffix, that denotes a valid calendar date
\* and time.
C16_OptionalZone ==
  op = "isValidIso8601" =>
    /\ ret.ok
    /\ IF args.timestamp.t # "string" THEN ret.val = FALSE
       ELSE IF ~(/\ C16_DateTime(Trim(args.timestamp.s))
                 /\ \/ C16_Suffix(Trim(args.timestamp.s)) = <<>>
                    \/ C16_IsZone(C16_Suffix(Trim(args.timestamp.s))))
       THEN ret.val = FALSE
       ELSE IF C16_OutOfRange(Trim(args.timestamp.s)) THEN ret.val = FALSE
       ELSE (/\ args.timestamp.s = Trim(args.timestamp.s)
             /\ C16_CalendarValid(args.timestamp.s)) => ret.val = TRUE

C16_Witness ==
  /\ op = "isValidIso8601"
  /\ ret.val = TRUE
  /\ Len(args.timestamp.s) = 19
  /\ C16_CalendarValid(args.timestamp.s)

(***************************************************************************)
(* Comparison of ids: uuid1 < uuid2 on the lower-cased strings, code unit  *)
(* by code unit                                                            *)
(***************************************************************************)
LowerCase(c) ==
  CASE c = "A" -> "a" [] c = "B" -> "b" [] c = "C" -> "c"
    [] c = "D" -> "d" [] c = "E" -> "e" [] c = "F" -> "f"
    [] OTHER -> c

\* the code unit of a lower-cased character of an id
CharCode(c) ==
  CASE c = "-" -> 45
    [] c \in Digits -> 48 + DigitVal(c)
    [] c = "a" -> 97 [] c = "b" -> 98 [] c = "c" -> 99
    [] c = "d" -> 100 [] c = "e" -> 101 [] c = "f" -> 102

RECURSIVE StringLess(_, _)
StringLess(a, b) ==
  IF Len(b) = 0 THEN FALSE
  ELSE IF Len(a) = 0 THEN TRUE
  ELSE IF CharCode(LowerCase(a[1])) # CharCode(LowerCase(b[1]))
  THEN CharCode(LowerCase(a[1])) < CharCode(LowerCase(b[1]))
  ELSE StringLess(Tail(a), Tail(b))

\* C17: when generateUuidV7 is called at one clock millisecond and called
\* again at a later one, the second id is strictly greater than the first
\* under case-insensitive string comparison, whatever random bits the two
\* calls drew.
C17_LaterMillisecondGreater ==
  [][(/\ op = "generateUuidV7"
      /\ op' = "generateUuidV7"
      /\ args'.now > args.now)
     => StringLess(ret.val, ret'.val)]_vars

\* a second id drawn with the lowest random bits, after an id of an earlier
\* millisecond
C17_Witness ==
  /\ op = "generateUuidV7"
  /\ args.now > ClockStart
  /\ args.rand.a = 0
  /\ UuidV7PatternTest(ret.val)

C19_RelationshipFactories ==
  {"createParentChildRelationship", "createCollectionMembershipRelationship"}

\* C19: createResource and createUniqueKeyValue read the clock once for the
\* timestamps: the returned record's _createdAt equals its _updatedAt, also
\* when the clock advances during the call, provided attributes sets neither
\* field; a relationship factory stamps one _createdAt, a time the clock
\* showed during the call, and no _updatedAt.
C19_OneClockRead ==
  /\ (/\ op \in {"createResource", "createUniqueKeyValue"}
      /\ ret.ok
      /\ op = "createResource"
           => AttributesAvoid(args, {"_createdAt", "_updatedAt"}))
     => ret.val["_createdAt"] = ret.val["_updatedAt"]
  /\ (op \in C19_RelationshipFactories /\ ret.ok)
     => /\ "_updatedAt" \notin DOMAIN ret.val
        /\ \E t \in ClockStart..clock :
             ret.val["_createdAt"] = JsStr(getCurrentTimestamp(t))

\* a resource whose id was generated in one millisecond and whose timestamps
\* were read in the next one
C19_Witness ==
  /\ op = "createResource"
  /\ ret.ok
  /\ Falsy(args.id)
  /\ AttributesAvoid(args, {"_createdAt", "_updatedAt"})
  /\ \E rand \in RandomBits :
       ret.val["_id"] = JsStr(generateUuidV7(ClockStart, rand))
  /\ ret.val["_createdAt"] = JsStr(getCurrentTimestamp(ClockStart + 1))
  /\ ret.val["_updatedAt"] = JsStr(getCurrentTimestamp(ClockStart + 1))

\* the components of a string of the shape urn:A:B::C
C21_Shape(x) == UrnPatternSplits(x.s) # {}

C21_Groups(x) == UrnPatternMatch(x.s)

\* the first failure of parseUrn in the claimed order, "" when there is none
C21_FirstFailure(x) ==
  IF x.t # "string" \/ Trim(x.s) = <<>>
  THEN "URN must be a non-empty string"
  ELSE IF ~C21_Shape(x) THEN "Invalid URN format"
  ELSE IF Trim(C21_Groups(x).domain) = <<>>
  THEN "Invalid URN: domain cannot be empty"
  ELSE IF Trim(C21_Groups(x).resourceType) = <<>>
  THEN "Invalid URN: resourceType cannot be empty"
  ELSE IF Trim(C21_Groups(x).resourceId) = <<>>
  THEN "Invalid URN: resourceId cannot be empty"
  ELSE ""

\* C21: parseUrn fails with the first of: 'URN must be a non-empty string'
\* for a non-string, empty or whitespace-only input; 'Invalid URN format'
\* for an input not of the shape urn:A:B::C with colon-free A, B, C; the
\* error naming the domain, then the resourceType, then the resourceId when
\* that component is empty or whitespace-only.  When none applies it returns
\* the three components trimmed.
C21_ParseUrnErrorOrder ==
  op = "parseUrn" =>
    /\ ret.err = C21_FirstFailure(args.urn)
    /\ ret.ok <=> C21_FirstFailure(args.urn) = ""
    /\ ret.ok =>
         ret.val = [domain |-> Trim(C21_Groups(args.urn).domain),
                    resourceType |-> Trim(C21_Groups(args.urn).resourceType),
                    resourceId |-> Trim(C21_Groups(args.urn).resourceId)]

\* a URN whose domain and resourceType are both blank: the domain is named
C21_Witness ==
  /\ op = "parseUrn"
  /\ args.urn.t = "string"
  /\ C21_Shape(args.urn)
  /\ Trim(C21_Groups(args.urn).domain) = <<>>
  /\ Trim(C21_Groups(args.urn).resourceType) = <<>>
  /\ ret.err = "Invalid URN: domain cannot be empty"

\* the outcome of a two-URN key function: firstError names the first
\* argument, secondError the second
C22_FirstArgumentFirst(first, second, firstError, secondError) ==
  /\ ~IsValidUrn(first) => ret.err = firstError
  /\ ret.err = secondError <=> (IsValidUrn(first) /\ ~IsValidUrn(second))
  /\ ret.ok <=> (IsValidUrn(first) /\ IsValidUrn(second))

C23_ReservedFields ==
  {"PK", "SK", "_recordType", "_resourceType", "_id", "urn", "_schemaVersion",
   "_createdAt", "_updatedAt", "_accountUrn"}

\* the options with the attributes left out
C23_WithoutAttributes(options) ==
  [options EXCEPT !.attributes = [defined |-> FALSE, fields |-> <<>>]]

\* C23: createResource merges attributes after all other fields: for every
\* key of attributes, a reserved field name included, the returned record
\* holds the attribute's value, and the attributes are not validated: the
\* call fails exactly when it fails without them, with the same error.
C23_AttributesMergedLast ==
  op = "createResource" =>
    /\ (ret.ok /\ args.attributes.defined) =>
         \A k \in DOMAIN args.attributes.fields :
           /\ k \in DOMAIN ret.val
           /\ ret.val[k] = args.attributes.fields[k]
    /\ \A rand \in RandomBits :
         /\ ret.ok =
              createResource(C23_WithoutAttributes(args),
                             <<clock, clock, clock>>, rand).ok
         /\ ret.err =
              createResource(C23_WithoutAttributes(args),
                             <<clock, clock, clock>>, rand).err

\* attributes that set reserved fields to values the factory would reject
C23_Witness ==
  /\ op = "createResource"
  /\ ret.ok
  /\ args.attributes.defined
  /\ {"_id", "_accountUrn", "_schemaVersion"}
       \subseteq (DOMAIN args.attributes.fields) \cap C23_ReservedFields
  /\ ~Falsy(args.accountUrn)
  /\ ret.val["_accountUrn"] = JsStr(InvalidLit)
  /\ ret.val["_id"] = JsNull

\* the outcomes a and b are both failures with the same error, or both records
C24_SameOutcome(a, b) == a.ok = b.ok /\ a.err = b.err

C24_Blank == JsStr(<<" ">>)

C24_Empty == JsStr(<<>>)

\* C24: in every optional string field (id and accountUrn of createResource,
\* accountUrn of createParentChildRelationship, associatedRecordUrn of
\* createUniqueKeyValue) a whitespace-only value gives the outcome the empty
\* string gives in its place: both rejected, or both treated as absent.
C24_BlankLikeEmpty ==
  /\ (op = "createResource" /\ args.id = C24_Blank) =>
       \A rand \in RandomBits :
         C24_SameOutcome(ret,
           createResource([args EXCEPT !.id = C24_Empty],
                          <<clock, clock, clock>>, rand))
  /\ (op = "createResource" /\ args.accountUrn = C24_Blank) =>
       \A rand \in RandomBits :
         C24_SameOutcome(ret,
           createResource([args EXCEPT !.accountUrn = C24_Empty],
                          <<clock, clock, clock>>, rand))
  /\ (op = "createParentChildRelationship" /\ args.accountUrn = C24_Blank) =>
       C24_SameOutcome(ret,
         createParentChildRelationship([args EXCEPT !.accountUrn = C24_Empty],
                                       <<clock, clock, clock>>))
  /\ (op = "createUniqueKeyValue" /\ args.associatedRecordUrn = C24_Blank) =>
       C24_SameOutcome(ret,
         createUniqueKeyValue([args EXCEPT !.associatedRecordUrn = C24_Empty],
                              <<clock, clock, clock>>))

\* createUrn applied to the components parseUrn returned
C25_Rebuilt(parsed) ==
  createUrn(JsStr(parsed.val.domain), JsStr(parsed.val.resourceType),
            JsStr(parsed.val.resourceId))

\* the URN x is the string createUrn rebuilds from its parsed components
C25_Canonical(x) ==
  /\ parseUrn(x).ok
  /\ C25_Rebuilt(parseUrn(x)).ok
  /\ C25_Rebuilt(parseUrn(x)).val = x.s

\* C25: every URN accepted by validateUrn is in canonical form: createUrn
\* applied to the components parseUrn returns gives back the identical
\* string, so the 'Resource#' keys of an accepted URN are those of the URN
\* rebuilt from its components.
C25_AcceptedUrnCanonical ==
  /\ (op = "validateUrn" /\ ret.val = TRUE) => C25_Canonical(args.urn)
  /\ (op = "generateResourceKey" /\ ret.ok) =>
       ret.val.PK = ResourcePrefix \o C25_Rebuilt(parseUrn(args.urn)).val

\* the trimmed (resourceType, key, value) of the arguments a
C26_Trimmed(a) ==
  <<Trim(a.resourceType.s), Trim(a.key.s), Trim(a.value.s)>>

\* the arguments b give the keys ret.val
C26_SameKeys(b) ==
  generateUniqueKeyValueKey(b.resourceType, b.key, b.value) = ret

\* C26: generateUniqueKeyValueKey is injective on trimmed inputs: another
\* call returns the same {PK, SK} pair only if its trimmed (resourceType,
\* key, value) is the trimmed triple of this call.
C26_UniqueKeyInjective ==
  (op = "generateUniqueKeyValueKey" /\ ret.ok) =>
    \A b \in UniqueKeyValueKeyArgs :
      C26_SameKeys(b) => C26_Trimmed(b) = C26_Trimmed(args)

\* the values the clock can show
C27_Clocks == ClockStart..(ClockStart + MaxTicks)

\* the outcomes of the calls of each factory, createResource being called
\* with attributes that set no reserved field
C27_ResourceOutcomes ==
  {createResource(a, <<t, t, t>>, rand) :
     a \in {x \in CreateResourceArgs : AttributesAvoid(x, C23_ReservedFields)},
     t \in C27_Clocks, rand \in RandomBits}

C27_ParentChildOutcomes ==
  {createParentChildRelationship(a, <<t, t, t>>) :
     a \in ParentChildArgs, t \in C27_Clocks}

C27_CollectionOutcomes ==
  {createCollectionMembershipRelationship(a, <<t, t, t>>) :
     a \in CollectionMembershipArgs, t \in C27_Clocks}

C27_UniqueOutcomes ==
  {createUniqueKeyValue(a, <<t, t, t>>) :
     a \in UniqueKeyValueArgs, t \in C27_Clocks}

\* the records the factories return
C27_Records(outcomes) == {r.val : r \in {x \in outcomes : x.ok}}

C27_ResourceRecords == C27_Records(C27_ResourceOutcomes)

C27_ParentChildRecords == C27_Records(C27_ParentChildOutcomes)

C27_CollectionRecords == C27_Records(C27_CollectionOutcomes)

C27_UniqueRecords == C27_Records(C27_UniqueOutcomes)

\* the records of the record types other than the one the factory o builds
C27_OtherRecords(o) ==
  (IF o = "createResource" THEN {} ELSE C27_ResourceRecords)
  \cup (IF o = "createParentChildRelationship" THEN {}
        ELSE C27_ParentChildRecords)
  \cup (IF o = "createCollectionMembershipRelationship" THEN {}
        ELSE C27_CollectionRecords)
  \cup (IF o = "createUniqueKeyValue" THEN {} ELSE C27_UniqueRecords)

\* r and q have the same primary key
C27_SameKey(r, q) == r["PK"] = q["PK"] /\ r["SK"] = q["SK"]

\* C27: a record a factory returns (createResource being called with
\* attributes that set no reserved field) has neither the PK nor the SK of
\* any record of another record type that a factory returns; a Resource
\* record with the (PK, SK) of another Resource record has its urn, and a
\* relationship record with the (PK, SK) of another relationship record of
\* its type has its two URNs.
C27_KeysDisjointAcrossTypes ==
  (/\ C15_RecordBuilt
   /\ op = "createResource" => AttributesAvoid(args, C23_ReservedFields)) =>
    /\ \A q \in C27_OtherRecords(op) :
         ret.val["PK"] # q["PK"] /\ ret.val["SK"] # q["SK"]
    /\ op = "createResource" =>
         \A q \in C27_ResourceRecords :
           C27_SameKey(ret.val, q) => ret.val["urn"] = q["urn"]
    /\ op = "createParentChildRelationship" =>
         \A q \in C27_ParentChildRecords :
           C27_SameKey(ret.val, q) =>
             /\ ret.val["parentUrn"] = q["parentUrn"]
             /\ ret.val["childUrn"] = q["childUrn"]
    /\ op = "createCollectionMembershipRelationship" =>
         \A q \in C27_CollectionRecords :
           C27_SameKey(ret.val, q) =>
             /\ ret.val["collectionUrn"] = q["collectionUrn"]
             /\ ret.val["memberUrn"] = q["memberUrn"]

\* a parent-child record whose parent is a resource that createResource
\* returns: the two records name the same URN and have different keys
C27_Witness ==
  /\ op = "createParentChildRelationship"
  /\ ret.ok
  /\ \E q \in C27_ResourceRecords : q["urn"] = ret.val["parentUrn"]
  /\ ret.val["PK"] = JsStr(ParentPrefix \o ret.val["parentUrn"].s)

\* the record's urn is valid and is built from its _resourceType and _id,
\* the _resourceType being the trimmed option
C28_UrnOfParts(options, record) ==
  /\ IsValidUrn(record["urn"])
  /\ record["_resourceType"] = JsStr(Trim(options.resourceType.s))
  /\ ~Falsy(options.id) => record["_id"] = options.id
  /\ record["_id"].t = "string"
  /\ record["urn"] =
       JsStr(UrnText(PpDomain, Trim(options.resourceType.s), record["_id"].s))

\* C28 as stated: when attributes does not set urn, a record createResource
\* returns has a urn that passes validateUrn and is 'urn:pp:' + trimmed
\* resourceType + '::' + id, with _resourceType and _id equal to those parts;
\* a resourceType containing ':' makes the call throw.
C28_ValidUrnUnlessUrnSet ==
  (op = "createResource" /\ AttributesAvoid(args, {"urn"})) =>
    /\ ret.ok => C28_UrnOfParts(args, ret.val)
    /\ ~NoColon(args.resourceType.s) => ~ret.ok

\* C28 amended: the same, when attributes sets none of urn, _resourceType
\* and _id.
C28_ValidUrnUnlessPartsSet ==
  (/\ op = "createResource"
   /\ AttributesAvoid(args, {"urn", "_resourceType", "_id"})) =>
    /\ ret.ok => C28_UrnOfParts(args, ret.val)
    /\ ~NoColon(args.resourceType.s) => ~ret.ok

\* a padded resourceType, a generated id and attributes that set other fields
C28_Witness ==
  /\ op = "createResource"
  /\ ret.ok
  /\ args.resourceType.s # Trim(args.resourceType.s)
  /\ Falsy(args.id)
  /\ args.attributes.defined
  /\ AttributesAvoid(args, {"urn", "_resourceType", "_id"})
  /\ UuidV7PatternTest(ret.val["_id"].s)

\* the record's _accountUrn passes validateUrn and is the accountUrn of the
\* options, unchanged
C29_AccountUrnKept(options, record) ==
  /\ IsValidUrn(record["_accountUrn"])
  /\ record["_accountUrn"] = options.accountUrn

C30_ArgumentsNotModified ==
  op = "createResource" =>
    /\ heap.options = OptionsObject(args)
    /\ ~heap.mutated =>
         heap.attributes = (IF args.attributes.defined
                            THEN args.attributes.fields ELSE <<>>)
    /\ ret.ok =>
         /\ heap.returned \notin {"options", "attributes"}
         /\ heap[heap.returned] = ret.val

\* the caller changed the attributes after the call and the record is the
\* one that was returned
C30_Witness ==
  /\ op = "createResource"
  /\ ret.ok
  /\ heap.mutated
  /\ heap.attributes # args.attributes.fields
  /\ heap.returned = "record"
  /\ heap.record = ret.val
  /\ \E k \in DOMAIN args.attributes.fields :
       heap.attributes[k] # ret.val[k]

====
